---- MODULE Spec2Model ----
(***************************************************************************)
(* Model of three Home Assistant integrations:                             *)
(*   - hunterdouglas_powerview/cover.py : the shade entity, its position   *)
(*     conversions and its two delayed polls (transition poll, resync      *)
(*     poll) on the host's event loop;                                     *)
(*   - hunterdouglas_powerview/cover.py async_setup_entry : the shade       *)
(*     platform's setup and the choice of the entity classes;              *)
(*   - hive/alarm_control_panel.py : the alarm entity's polling update;    *)
(*   - rachio/__init__.py : the irrigation entry's setup, unload, removal. *)
(*                                                                         *)
(* One shade entity is modelled.  Every coroutine is cut at its await      *)
(* points: the code between two awaits runs atomically on the event loop   *)
(* and is one action.  Vendor calls (move, stop, refresh) are the awaits;  *)
(* each returns or raises at a later step.                                 *)
(*                                                                         *)
(* Python floats: round((p / max) * 100), int(h / 100 * max) and           *)
(* int(40 * (steps / 100)) were compared with the exact integer formulas   *)
(* used here for every p in 0..65535, h in 0..100, steps in -200..200 and  *)
(* both scales (65535, 32767); they agree on all of them.                  *)
(***************************************************************************)
EXTENDS Integers, FiniteSets, Sequences, TLC

\* ------------------------------------------------------------ constants
MAX_POSITION == 65535
MIN_POSITION == 0
TRANSITION_COMPLETE_DURATION == 40
RESYNC_DELAY == 60
PARALLEL_UPDATES == 1
SILHOUETTE_MAX_TILT == 32767

\* ------------------------------------------------------------ bounds
\* Timers the host scheduler can hold at once for this entity.
MaxTimers == 2
\* Timer callbacks of this entity awaiting the vendor's refresh at once.
MaxTasks == 1

\* ------------------------------------------------------------ arithmetic
\* Python's round(n / d): to nearest, ties to even.
RoundHalfEven(n, d) ==
    LET q == n \div d
        r == n % d
    IN IF 2 * r > d \/ (2 * r = d /\ q % 2 = 1) THEN q + 1 ELSE q

\* Python's int(n / d): truncation toward zero.
Trunc(n, d) == IF n >= 0 THEN n \div d ELSE -((-n) \div d)

Min(a, b) == IF a <= b THEN a ELSE b
Abs(a) == IF a >= 0 THEN a ELSE -a

\* int() where the code has round().
hd_position_to_hass_truncates(hd_position, max_val) ==
    Trunc(hd_position * 100, max_val)

hd_position_to_hass(hd_position, max_val) ==
    RoundHalfEven(hd_position * 100, max_val)

\* Every percentage scaled to the range of a rail, whatever the scale asked for.
hass_position_to_hd_rail_scale(hass_position, max_val) ==
    Trunc(hass_position * MAX_POSITION, 100)

hass_position_to_hd(hass_position, max_val) ==
    Trunc(hass_position * max_val, 100)

\* Closed below 1% instead of 0.75% of the range.
AtMost_one_percent(p) == p * 100 <= MAX_POSITION - MIN_POSITION

\* p <= CLOSED_POSITION, where CLOSED_POSITION = (0.75 / 100) * (MAX - MIN)
\* = 491.5125 is not an integer: both sides are scaled by 10000.
AtMost_CLOSED_POSITION(p) == p * 10000 <= 75 * (MAX_POSITION - MIN_POSITION)

\* steps // 100 where the code has steps / 100.
est_time_integer_division(steps) ==
    1 + TRANSITION_COMPLETE_DURATION * Trunc(steps, 100)

\* est_time_to_complete_transition = 1 + int(40 * (steps / 100))
est_time_to_complete_transition(steps) ==
    1 + Trunc(TRANSITION_COMPLETE_DURATION * steps, 100)

\* ------------------------------------------------------------ state
VARIABLES
    kind,                         \* the entity's class (fixed at construction)
    positions,                    \* self.positions: cached vendor positions
    is_opening,                   \* self._attr_is_opening
    is_closing,                   \* self._attr_is_closing
    scheduled_transition_update,  \* handle of the transition poll, 0 = None
    forced_resync,                \* handle of the resync poll, 0 = None
    timers,                       \* the host scheduler: slot -> pending timer
    tasks,                        \* timer callbacks awaiting shade.refresh()
    call,                         \* the service call / host poll in flight
    removed,                      \* async_will_remove_from_hass has run
    written,                      \* the state last written to the host
    hive,                         \* the alarm as the vendor has it
    device,                       \* alarm entity: self.device (last report)
    attr_available,               \* alarm entity: self._attr_available
    attr_state,                   \* alarm entity: self._attr_state
    rachio,                       \* the irrigation entry and its setup
    platform                      \* the shade platform's setup

shadeVars == <<kind, positions, is_opening, is_closing,
               scheduled_transition_update, forced_resync, timers, tasks,
               call, removed, written>>
alarmVars == <<hive, device, attr_available, attr_state>>
setupVars == <<rachio, platform>>
vars == <<kind, positions, is_opening, is_closing,
          scheduled_transition_update, forced_resync, timers, tasks,
          call, removed, written, hive, device, attr_available, attr_state,
          rachio, platform>>

Kinds == {"plain", "tilt", "silhouette", "tdbu_top", "tdbu_bottom"}
TDBU == {"tdbu_top", "tdbu_bottom"}
WithTilt == {"tilt", "silhouette"}

\* A position that is not part of a request or of a response.
Absent == MIN_POSITION - 1
NoPositions == [primary |-> Absent, secondary |-> Absent, vane |-> Absent]
PosKinds == {"primary", "secondary", "vane"}

\* PowerViewShadeWithTilt._max_tilt, overridden by PowerViewShadeSilhouette
_max_tilt == IF kind = "silhouette" THEN SILHOUETTE_MAX_TILT ELSE MAX_POSITION

\* ------------------------------------------------------------ properties
is_closed(pos) ==
    IF kind = "tdbu_top"
    THEN AtMost_CLOSED_POSITION(pos.secondary)
    ELSE AtMost_CLOSED_POSITION(pos.primary)

current_cover_position(pos) ==
    IF kind = "tdbu_top"
    THEN hd_position_to_hass(pos.secondary, MAX_POSITION)
    ELSE hd_position_to_hass(pos.primary, MAX_POSITION)

current_cover_tilt_position(pos) == hd_position_to_hass(pos.vane, _max_tilt)

\* The steps of a tilt shade counted on its rail alone.
transition_steps_rail_only(pos) ==
    IF kind \in TDBU
    THEN hd_position_to_hass(pos.primary, MAX_POSITION)
         + hd_position_to_hass(pos.secondary, MAX_POSITION)
    ELSE hd_position_to_hass(pos.primary, MAX_POSITION)

transition_steps(pos) ==
    IF kind \in TDBU
    THEN hd_position_to_hass(pos.primary, MAX_POSITION)
         + hd_position_to_hass(pos.secondary, MAX_POSITION)
    ELSE IF kind \in WithTilt
    THEN hd_position_to_hass(pos.primary, MAX_POSITION)
         + hd_position_to_hass(pos.vane, _max_tilt)
    ELSE hd_position_to_hass(pos.primary, MAX_POSITION)

\* A PowerviewShadeMove: the request sent and the positions applied locally.
Move(req, new) == [request |-> req, new_positions |-> new]

\* self._shade.open_position: the vendor library's default, which
\* PowerViewShadeTDBUTop.__init__ overrides on the shade object that the top
\* and the bottom entity share.
open_position ==
    IF kind \in TDBU
    THEN Move([NoPositions EXCEPT !.primary = MIN_POSITION,
                                  !.secondary = MAX_POSITION], NoPositions)
    ELSE IF kind \in WithTilt
    THEN Move([NoPositions EXCEPT !.primary = MAX_POSITION],
              [NoPositions EXCEPT !.vane = MIN_POSITION])
    ELSE Move([NoPositions EXCEPT !.primary = MAX_POSITION], NoPositions)

close_position ==
    IF kind \in TDBU
    THEN Move([NoPositions EXCEPT !.primary = MIN_POSITION,
                                  !.secondary = MIN_POSITION], NoPositions)
    ELSE IF kind \in WithTilt
    THEN Move([NoPositions EXCEPT !.primary = MIN_POSITION],
              [NoPositions EXCEPT !.vane = MIN_POSITION])
    ELSE Move([NoPositions EXCEPT !.primary = MIN_POSITION], NoPositions)

open_tilt_position ==
    Move([NoPositions EXCEPT !.vane = _max_tilt],
         [NoPositions EXCEPT !.primary = MIN_POSITION])

close_tilt_position ==
    Move([NoPositions EXCEPT !.vane = MIN_POSITION],
         [NoPositions EXCEPT !.primary = MIN_POSITION])

\* The bottom rail clamped against itself instead of against the top rail.
_clamp_cover_limit_own_rail(target_hass_position) ==
    IF kind = "tdbu_bottom"
    THEN Min(target_hass_position,
             100 - hd_position_to_hass(positions.primary, MAX_POSITION))
    ELSE IF kind = "tdbu_top"
    THEN Min(target_hass_position,
             100 - hd_position_to_hass(positions.primary, MAX_POSITION))
    ELSE target_hass_position

_clamp_cover_limit(target_hass_position) ==
    IF kind = "tdbu_bottom"
    THEN Min(target_hass_position,
             100 - hd_position_to_hass(positions.secondary, MAX_POSITION))
    ELSE IF kind = "tdbu_top"
    THEN Min(target_hass_position,
             100 - hd_position_to_hass(positions.primary, MAX_POSITION))
    ELSE target_hass_position

\* A dual-rail move that sends the other rail to its closed end instead of
\* where it is.
_get_shade_move_other_rail_closed(target_hass_position) ==
    IF kind = "tdbu_bottom"
    THEN Move([NoPositions EXCEPT
                 !.primary = hass_position_to_hd(target_hass_position, MAX_POSITION),
                 !.secondary = MIN_POSITION], NoPositions)
    ELSE IF kind = "tdbu_top"
    THEN Move([NoPositions EXCEPT
                 !.primary = MIN_POSITION,
                 !.secondary = hass_position_to_hd(target_hass_position, MAX_POSITION)],
              NoPositions)
    ELSE IF kind \in WithTilt
    THEN Move([NoPositions EXCEPT
                 !.primary = hass_position_to_hd(target_hass_position, MAX_POSITION)],
              [NoPositions EXCEPT !.vane = MIN_POSITION])
    ELSE Move([NoPositions EXCEPT
                 !.primary = hass_position_to_hd(target_hass_position, MAX_POSITION)],
              NoPositions)

_get_shade_move(target_hass_position) ==
    IF kind = "tdbu_bottom"
    THEN Move([NoPositions EXCEPT
                 !.primary = hass_position_to_hd(target_hass_position, MAX_POSITION),
                 !.secondary = positions.secondary], NoPositions)
    ELSE IF kind = "tdbu_top"
    THEN Move([NoPositions EXCEPT
                 !.primary = positions.primary,
                 !.secondary = hass_position_to_hd(target_hass_position, MAX_POSITION)],
              NoPositions)
    ELSE IF kind \in WithTilt
    THEN Move([NoPositions EXCEPT
                 !.primary = hass_position_to_hd(target_hass_position, MAX_POSITION)],
              [NoPositions EXCEPT !.vane = MIN_POSITION])
    ELSE Move([NoPositions EXCEPT
                 !.primary = hass_position_to_hd(target_hass_position, MAX_POSITION)],
              NoPositions)

_get_shade_tilt(target_hass_tilt_position) ==
    Move([NoPositions EXCEPT
            !.vane = hass_position_to_hd(target_hass_tilt_position, _max_tilt)],
         [NoPositions EXCEPT !.primary = MIN_POSITION])

\* self.data.update_shade_positions / update_shade_position /
\* update_from_response: the positions a report carries replace the cached ones.
update_shade_positions(pos, data) ==
    [k \in PosKinds |-> IF data[k] # Absent THEN data[k] ELSE pos[k]]

\* What async_write_ha_state publishes of the entity.
HaState(pos, opening, closing) ==
    [pos |-> current_cover_position(pos), closed |-> is_closed(pos),
     opening |-> opening, closing |-> closing]

Unwritten == [pos |-> Absent, closed |-> FALSE, opening |-> FALSE, closing |-> FALSE]

\* ------------------------------------------------------------ the scheduler
NoTimer == [cb |-> "none", delay |-> 0]
Slots == 1..MaxTimers

HasFree(tm) == \E i \in Slots : tm[i] = NoTimer
FreeSlot(tm) == CHOOSE i \in Slots :
                    tm[i] = NoTimer /\ \A j \in Slots : j < i => tm[j] # NoTimer

\* Calling the cancel function that async_call_later returned.
Cancelled(tm, handle) ==
    IF handle # 0 THEN [tm EXCEPT ![handle] = NoTimer] ELSE tm

\* async_call_later(self.hass, delay, callback)
Armed(tm, cb, delay) ==
    [tm EXCEPT ![FreeSlot(tm)] = [cb |-> cb, delay |-> delay]]

_update_in_progress(transition_handle, resync_handle) ==
    transition_handle # 0 \/ resync_handle # 0

\* The timers left by _async_cancel_scheduled_transition_update.
after_cancel_scheduled_transition_update ==
    Cancelled(Cancelled(timers, scheduled_transition_update), forced_resync)

_async_cancel_scheduled_transition_update ==
    /\ timers' = after_cancel_scheduled_transition_update
    /\ scheduled_transition_update' = 0
    /\ forced_resync' = 0

_async_schedule_update_for_transition(steps) ==
    LET tm == after_cancel_scheduled_transition_update IN
    /\ HasFree(tm)
    /\ timers' = Armed(tm, "transition", est_time_to_complete_transition(steps))
    /\ scheduled_transition_update' = FreeSlot(tm)
    /\ forced_resync' = 0

\* ------------------------------------------------------------ calls
\* The operation in flight: besides what it does when its await returns, the
\* step count it passed to _async_schedule_update_for_transition and, for the
\* set-position and set-tilt-position operations, the percentage it commands.
NoCall == [op |-> "none", pc |-> "idle", request |-> NoPositions,
           new_positions |-> NoPositions, opening |-> FALSE, closing |-> FALSE,
           steps |-> 0, target |-> Absent]

MoveCall(op, move, opening, closing, steps, target) ==
    [op |-> op, pc |-> "move_wait", request |-> move.request,
     new_positions |-> move.new_positions, opening |-> opening, closing |-> closing,
     steps |-> steps, target |-> target]

\* Service calls and host polls of the platform take its PARALLEL_UPDATES
\* semaphore; a removed entity gets no further calls.
CanCall == call.op = "none" /\ PARALLEL_UPDATES = 1 /\ ~removed

Targets == 0..100

async_close_cover ==
    /\ CanCall
    /\ _async_schedule_update_for_transition(transition_steps(positions))
    /\ call' = MoveCall("close", close_position, FALSE, TRUE,
                        transition_steps(positions), Absent)
    /\ UNCHANGED <<kind, positions, is_opening, is_closing, tasks, removed, written,
                   hive, device, attr_available, attr_state,
                   rachio, platform>>

async_open_cover ==
    /\ CanCall
    /\ _async_schedule_update_for_transition(100 - transition_steps(positions))
    /\ call' = MoveCall("open", open_position, TRUE, FALSE,
                        100 - transition_steps(positions), Absent)
    /\ UNCHANGED <<kind, positions, is_opening, is_closing, tasks, removed, written,
                   hive, device, attr_available, attr_state,
                   rachio, platform>>

_async_set_cover_position(target) ==
    LET target_hass_position == _clamp_cover_limit(target)
        current_hass_position == current_cover_position(positions)
        steps == Abs(current_hass_position - target_hass_position)
    IN
    /\ CanCall
    /\ _async_schedule_update_for_transition(steps)
    /\ call' = MoveCall("set", _get_shade_move(target_hass_position),
                        target_hass_position > current_hass_position,
                        target_hass_position < current_hass_position,
                        steps, target_hass_position)
    /\ UNCHANGED <<kind, positions, is_opening, is_closing, tasks, removed, written,
                   hive, device, attr_available, attr_state,
                   rachio, platform>>

async_close_cover_tilt ==
    /\ CanCall
    /\ kind \in WithTilt
    /\ _async_schedule_update_for_transition(transition_steps(positions))
    /\ call' = MoveCall("close_tilt", close_tilt_position, is_opening, is_closing,
                        transition_steps(positions), Absent)
    /\ UNCHANGED <<kind, positions, is_opening, is_closing, tasks, removed, written,
                   hive, device, attr_available, attr_state,
                   rachio, platform>>

async_open_cover_tilt ==
    /\ CanCall
    /\ kind \in WithTilt
    /\ _async_schedule_update_for_transition(100 - transition_steps(positions))
    /\ call' = MoveCall("open_tilt", open_tilt_position, is_opening, is_closing,
                        100 - transition_steps(positions), Absent)
    /\ UNCHANGED <<kind, positions, is_opening, is_closing, tasks, removed, written,
                   hive, device, attr_available, attr_state,
                   rachio, platform>>

_async_set_cover_tilt_position(target_hass_tilt_position) ==
    LET final_position == current_cover_position(positions) + target_hass_tilt_position
        steps == Abs(transition_steps(positions) - final_position)
    IN
    /\ CanCall
    /\ kind \in WithTilt
    /\ _async_schedule_update_for_transition(steps)
    /\ call' = MoveCall("set_tilt", _get_shade_tilt(target_hass_tilt_position),
                        is_opening, is_closing, steps, target_hass_tilt_position)
    /\ UNCHANGED <<kind, positions, is_opening, is_closing, tasks, removed, written,
                   hive, device, attr_available, attr_state,
                   rachio, platform>>

TiltOps == {"close_tilt", "open_tilt", "set_tilt"}

\* _async_execute_move after shade.move() returned `response`, then the rest
\* of the operation: the flags (not touched by the tilt operations) and
\* async_write_ha_state.
_async_execute_move(response) ==
    LET pos == update_shade_positions(
                   update_shade_positions(positions, call.new_positions), response)
        opening == IF call.op \in TiltOps THEN is_opening ELSE call.opening
        closing == IF call.op \in TiltOps THEN is_closing ELSE call.closing
    IN
    /\ call.pc = "move_wait"
    /\ positions' = pos
    /\ is_opening' = opening
    /\ is_closing' = closing
    /\ written' = HaState(pos, opening, closing)
    /\ call' = NoCall
    /\ UNCHANGED <<kind, scheduled_transition_update, forced_resync, timers,
                   tasks, removed,
                   hive, device, attr_available, attr_state,
                   rachio, platform>>

\* The hub answers a move with the positions it was asked for, or with no
\* position data.
MoveResponses == {call.request, NoPositions}

MoveReturns == \E response \in MoveResponses : _async_execute_move(response)

\* The exception of shade.move() swallowed: the operation goes on as after a
\* move that returned no position data.
MoveFails_swallowed == _async_execute_move(NoPositions)

\* shade.move() raises: the exception leaves the operation.
MoveFails ==
    /\ call.pc = "move_wait"
    /\ call' = NoCall
    /\ UNCHANGED <<kind, positions, is_opening, is_closing,
                   scheduled_transition_update, forced_resync, timers, tasks,
                   removed, written,
                   hive, device, attr_available, attr_state,
                   rachio, platform>>

\* ------------------------------------------------------------ the hub
\* The positions a refresh, a stop or the coordinator's group data can report
\* for this shade: the ends of each range the shade has.
HubRail == {MIN_POSITION, MAX_POSITION}
HubVane == {MIN_POSITION, _max_tilt}

Reports ==
    IF kind \in TDBU
    THEN {[NoPositions EXCEPT !.primary = p, !.secondary = q] :
             p \in HubRail, q \in HubRail}
    ELSE IF kind \in WithTilt
    THEN {[NoPositions EXCEPT !.primary = p, !.vane = v] :
             p \in HubRail, v \in HubVane}
    ELSE {[NoPositions EXCEPT !.primary = p] : p \in HubRail}

\* ------------------------------------------------------------ stop, polls
RefreshCall(op) == [NoCall EXCEPT !.op = op, !.pc = "refresh_wait"]

async_stop_cover ==
    /\ CanCall
    /\ _async_cancel_scheduled_transition_update
    /\ call' = [NoCall EXCEPT !.op = "stop", !.pc = "stop_wait"]
    /\ UNCHANGED <<kind, positions, is_opening, is_closing, tasks, removed, written,
                   hive, device, attr_available, attr_state,
                   rachio, platform>>

async_stop_cover_tilt ==
    /\ kind \in WithTilt
    /\ async_stop_cover

\* shade.stop() returned: update_from_response, then _async_force_refresh_state
\* up to the await in async_update (or to its end, when the update is skipped).
StopReturns ==
    \E response \in Reports \cup {NoPositions} :
        LET pos == update_shade_positions(positions, response) IN
        /\ call.pc = "stop_wait"
        /\ positions' = pos
        /\ IF _update_in_progress(scheduled_transition_update, forced_resync)
           THEN /\ written' = HaState(pos, is_opening, is_closing)
                /\ call' = NoCall
           ELSE /\ written' = written
                /\ call' = RefreshCall("stop")
        /\ UNCHANGED <<kind, is_opening, is_closing, scheduled_transition_update,
                       forced_resync, timers, tasks, removed,
                   hive, device, attr_available, attr_state,
                   rachio, platform>>

\* The host's poll of the entity.
async_update ==
    /\ CanCall
    /\ IF _update_in_progress(scheduled_transition_update, forced_resync)
       THEN call' = call
       ELSE call' = RefreshCall("update")
    /\ UNCHANGED <<kind, positions, is_opening, is_closing,
                   scheduled_transition_update, forced_resync, timers, tasks,
                   removed, written,
                   hive, device, attr_available, attr_state,
                   rachio, platform>>

\* The refreshed data stored without clearing the two flags.
_async_update_shade_data_keeps_flags(shade_data) ==
    /\ positions' = update_shade_positions(positions, shade_data)
    /\ UNCHANGED <<is_opening, is_closing>>

\* shade.refresh() returned to async_update: _async_update_shade_data, and for
\* a stop the async_write_ha_state of _async_force_refresh_state.
_async_update_shade_data(shade_data) ==
    /\ positions' = update_shade_positions(positions, shade_data)
    /\ is_opening' = FALSE
    /\ is_closing' = FALSE

RefreshReturns ==
    \E shade_data \in Reports :
        /\ call.pc = "refresh_wait"
        /\ _async_update_shade_data(shade_data)
        /\ written' = IF call.op = "stop"
                      THEN HaState(positions', FALSE, FALSE)
                      ELSE written
        /\ call' = NoCall
        /\ UNCHANGED <<kind, scheduled_transition_update, forced_resync, timers,
                       tasks, removed,
                   hive, device, attr_available, attr_state,
                   rachio, platform>>

\* shade.stop() or shade.refresh() raises in the call.
CallFails ==
    /\ call.pc \in {"stop_wait", "refresh_wait"}
    /\ call' = NoCall
    /\ UNCHANGED <<kind, positions, is_opening, is_closing,
                   scheduled_transition_update, forced_resync, timers, tasks,
                   removed, written,
                   hive, device, attr_available, attr_state,
                   rachio, platform>>

\* The coordinator's broadcast (the listener is dropped with the entity).
_async_update_shade_from_group ==
    /\ ~removed
    /\ IF _update_in_progress(scheduled_transition_update, forced_resync)
       THEN UNCHANGED <<positions, written>>
       ELSE \E group_data \in Reports :
               /\ positions' = update_shade_positions(positions, group_data)
               /\ written' = HaState(positions', is_opening, is_closing)
    /\ UNCHANGED <<kind, is_opening, is_closing, scheduled_transition_update,
                   forced_resync, timers, tasks, call, removed,
                   hive, device, attr_available, attr_state,
                   rachio, platform>>

\* ------------------------------------------------------------ timers firing
NoTasks == [complete |-> 0, resync |-> 0]
InFlight == tasks.complete + tasks.resync

\* The transition poll in slot i fires: _async_complete_schedule_update up to
\* the await in async_update; when the update is skipped nothing is awaited and
\* the handler runs to its end.
_async_complete_schedule_update(i) ==
    LET tm == [timers EXCEPT ![i] = NoTimer] IN
    /\ timers[i].cb = "transition"
    /\ scheduled_transition_update' = 0
    /\ IF _update_in_progress(0, forced_resync)
       THEN /\ written' = HaState(positions, is_opening, is_closing)
            /\ timers' = Armed(tm, "resync", RESYNC_DELAY)
            /\ forced_resync' = FreeSlot(tm)
            /\ tasks' = tasks
       ELSE /\ InFlight < MaxTasks
            /\ tasks' = [tasks EXCEPT !.complete = @ + 1]
            /\ timers' = tm
            /\ UNCHANGED <<written, forced_resync>>
    /\ UNCHANGED <<kind, positions, is_opening, is_closing, call, removed,
                   hive, device, attr_available, attr_state,
                   rachio, platform>>

\* The resync poll in slot i fires: _async_force_resync up to the await.
_async_force_resync(i) ==
    /\ timers[i].cb = "resync"
    /\ forced_resync' = 0
    /\ timers' = [timers EXCEPT ![i] = NoTimer]
    /\ IF _update_in_progress(scheduled_transition_update, 0)
       THEN /\ written' = HaState(positions, is_opening, is_closing)
            /\ tasks' = tasks
       ELSE /\ InFlight < MaxTasks
            /\ tasks' = [tasks EXCEPT !.resync = @ + 1]
            /\ written' = written
    /\ UNCHANGED <<kind, positions, is_opening, is_closing,
                   scheduled_transition_update, call, removed,
                   hive, device, attr_available, attr_state,
                   rachio, platform>>

FireTimer == \E i \in Slots :
    _async_complete_schedule_update(i) \/ _async_force_resync(i)

\* The refresh awaited by _async_complete_schedule_update returned: the data is
\* applied, the state written and the resync poll armed.
arm_forced_resync ==
    /\ HasFree(timers)
    /\ timers' = Armed(timers, "resync", RESYNC_DELAY)
    /\ forced_resync' = FreeSlot(timers)

CompleteReturns ==
    \E shade_data \in Reports :
        /\ tasks.complete > 0
        /\ tasks' = [tasks EXCEPT !.complete = @ - 1]
        /\ _async_update_shade_data(shade_data)
        /\ written' = HaState(positions', FALSE, FALSE)
        /\ arm_forced_resync
        /\ UNCHANGED <<kind, scheduled_transition_update, call, removed,
                   hive, device, attr_available, attr_state,
                   rachio, platform>>

\* The refresh awaited by _async_force_resync returned.
ResyncReturns ==
    \E shade_data \in Reports :
        /\ tasks.resync > 0
        /\ tasks' = [tasks EXCEPT !.resync = @ - 1]
        /\ _async_update_shade_data(shade_data)
        /\ written' = HaState(positions', FALSE, FALSE)
        /\ UNCHANGED <<kind, scheduled_transition_update, forced_resync, timers,
                       call, removed,
                   hive, device, attr_available, attr_state,
                   rachio, platform>>

\* shade.refresh() raises in a timer callback: the callback ends there.
TaskFails ==
    \E t \in {"complete", "resync"} :
        /\ tasks[t] > 0
        /\ tasks' = [tasks EXCEPT ![t] = @ - 1]
        /\ UNCHANGED <<kind, positions, is_opening, is_closing,
                       scheduled_transition_update, forced_resync, timers, call,
                       removed, written,
                   hive, device, attr_available, attr_state,
                   rachio, platform>>

async_will_remove_from_hass ==
    /\ ~removed
    /\ _async_cancel_scheduled_transition_update
    /\ removed' = TRUE
    /\ UNCHANGED <<kind, positions, is_opening, is_closing, tasks, call, written,
                   hive, device, attr_available, attr_state,
                   rachio, platform>>

\* ------------------------------------------------------------ the shade
InitPositions ==
    IF kind \in TDBU
    THEN [primary |-> MIN_POSITION, secondary |-> MIN_POSITION, vane |-> Absent]
    ELSE IF kind \in WithTilt
    THEN [primary |-> MIN_POSITION, secondary |-> Absent, vane |-> MIN_POSITION]
    ELSE [primary |-> MIN_POSITION, secondary |-> Absent, vane |-> Absent]

AlarmIdle ==
    /\ hive = [mode |-> "home", triggered |-> FALSE, online |-> TRUE]
    /\ device = [mode |-> "home", triggered |-> FALSE, online |-> TRUE]
    /\ attr_available = TRUE
    /\ attr_state = "unknown"

ShadeIdle ==
    /\ is_opening = FALSE
    /\ is_closing = FALSE
    /\ scheduled_transition_update = 0
    /\ forced_resync = 0
    /\ timers = [i \in Slots |-> NoTimer]
    /\ tasks = NoTasks
    /\ call = NoCall
    /\ removed = FALSE
    /\ written = Unwritten

\* The irrigation entry before its first setup, with neither a manual run time
\* in its data nor one in its options.  `error` is the exception the vendor
\* call awaited last has raised, `person` whether person.async_setup returned,
\* `cloudhook` whether the entry's data holds CONF_CLOUDHOOK_URL.
RachioIdle ==
    [pc |-> "not_loaded", config_manual_run_mins |-> 0,
     options_manual_run_mins |-> 0, webhook_auth |-> "", webhook_url |-> "",
     cloudhook |-> FALSE, person |-> FALSE, controllers |-> 0,
     error |-> "none", data |-> FALSE, webhook |-> FALSE, platforms |-> FALSE, result |-> "none"]

\* The shade platform before its setup, for a hub without shades.
PlatformIdle ==
    [pc |-> "start", shades |-> <<>>, i |-> 0, entities |-> <<>>, added |-> FALSE]

SetupIdle ==
    /\ rachio = RachioIdle
    /\ platform = PlatformIdle

\* The positions the cache holds when the entity is created: a report of the hub.
Init ==
    /\ kind \in Kinds
    /\ positions \in {update_shade_positions(InitPositions, r) : r \in Reports}
    /\ ShadeIdle
    /\ AlarmIdle
    /\ SetupIdle

\* The targets of set-position and set-tilt-position requests.
SomeTargets == {0, 50, 100}

Next ==
    \/ async_close_cover
    \/ async_open_cover
    \/ \E t \in SomeTargets : _async_set_cover_position(t)
    \/ async_close_cover_tilt
    \/ async_open_cover_tilt
    \/ \E t \in SomeTargets : _async_set_cover_tilt_position(t)
    \/ MoveReturns
    \/ MoveFails
    \/ async_stop_cover
    \/ async_stop_cover_tilt
    \/ StopReturns
    \/ async_update
    \/ RefreshReturns
    \/ CallFails
    \/ _async_update_shade_from_group
    \/ FireTimer
    \/ CompleteReturns
    \/ ResyncReturns
    \/ TaskFails
    \/ async_will_remove_from_hass

Spec == Init /\ [][Next]_vars

\* ------------------------------------------------------------ conversions
\* The entity publishes its state; the host then asks for the position it
\* was shown.  The cached position is any position the hub can report.
async_write_ha_state ==
    /\ written' = HaState(positions, is_opening, is_closing)
    /\ UNCHANGED <<kind, positions, is_opening, is_closing,
                   scheduled_transition_update, forced_resync, timers, tasks,
                   call, removed, hive, device, attr_available, attr_state,
                   rachio, platform>>

SetReportedPosition ==
    /\ written # Unwritten
    /\ _async_set_cover_position(written.pos)

InitConv ==
    /\ kind \in {"plain", "tdbu_top"}
    /\ \E p \in MIN_POSITION..MAX_POSITION :
          positions = IF kind = "tdbu_top"
                      THEN [InitPositions EXCEPT !.secondary = p]
                      ELSE [InitPositions EXCEPT !.primary = p]
    /\ ShadeIdle
    /\ AlarmIdle
    /\ SetupIdle

NextConv == async_write_ha_state \/ SetReportedPosition

SpecConv == InitConv /\ [][NextConv]_vars

\* ------------------------------------------------------------ moves
\* One movement operation, up to its await of shade.move(), from every sampled
\* state of the cache.
\* For every percentage, the least and the greatest vendor position that is
\* reported as that percentage.
Boundaries(max_val) ==
    {p \in MIN_POSITION..max_val :
        \/ p = MIN_POSITION
        \/ p = max_val
        \/ hd_position_to_hass(p - 1, max_val) # hd_position_to_hass(p, max_val)
        \/ hd_position_to_hass(p + 1, max_val) # hd_position_to_hass(p, max_val)}

RailSamples == Boundaries(MAX_POSITION)
VaneSamples == Boundaries(MAX_POSITION)
SilhouetteVaneSamples == Boundaries(SILHOUETTE_MAX_TILT)
FewRailSamples ==
    {MIN_POSITION, hass_position_to_hd(50, MAX_POSITION), MAX_POSITION}

InitMove ==
    /\ kind \in Kinds
    /\ \/ /\ kind = "plain"
          /\ \E p \in RailSamples :
                positions = [InitPositions EXCEPT !.primary = p]
       \/ /\ kind = "tdbu_bottom"
          /\ \E p \in FewRailSamples, q \in RailSamples :
                positions = [InitPositions EXCEPT !.primary = p, !.secondary = q]
       \/ /\ kind = "tdbu_top"
          /\ \E p \in RailSamples, q \in FewRailSamples :
                positions = [InitPositions EXCEPT !.primary = p, !.secondary = q]
       \/ /\ kind = "tilt"
          /\ \E p \in FewRailSamples, v \in VaneSamples :
                positions = [InitPositions EXCEPT !.primary = p, !.vane = v]
       \/ /\ kind = "silhouette"
          /\ \E p \in FewRailSamples, v \in SilhouetteVaneSamples :
                positions = [InitPositions EXCEPT !.primary = p, !.vane = v]
    /\ ShadeIdle
    /\ AlarmIdle
    /\ SetupIdle

NextMove ==
    \/ async_close_cover
    \/ async_open_cover
    \/ \E t \in Targets : _async_set_cover_position(t)
    \/ async_close_cover_tilt
    \/ async_open_cover_tilt
    \/ \E t \in Targets : _async_set_cover_tilt_position(t)

SpecMove == InitMove /\ [][NextMove]_vars

\* ------------------------------------------------------------ the alarm
HiveModes == {"home", "asleep", "away"}
HiveReports == [mode : HiveModes, triggered : BOOLEAN, online : BOOLEAN]

\* The table with the two armed states exchanged.
HIVETOHA_armed_exchanged(mode) ==
    CASE mode = "home" -> "disarmed"
      [] mode = "asleep" -> "armed_away"
      [] mode = "away" -> "armed_night"

HIVETOHA(mode) ==
    CASE mode = "home" -> "disarmed"
      [] mode = "asleep" -> "armed_night"
      [] mode = "away" -> "armed_away"

\* The alarm changes at the vendor: it is triggered or reset, goes offline or
\* comes back, or its mode is set from elsewhere.
HiveChanges ==
    /\ hive' \in HiveReports
    /\ hive' # hive
    /\ UNCHANGED <<device, attr_available, attr_state>>
    /\ UNCHANGED shadeVars
    /\ UNCHANGED setupVars

setMode(mode) ==
    /\ hive' = [hive EXCEPT !.mode = mode]
    /\ UNCHANGED <<device, attr_available, attr_state>>
    /\ UNCHANGED shadeVars
    /\ UNCHANGED setupVars

async_alarm_disarm == setMode("home")
async_alarm_arm_night == setMode("asleep")
async_alarm_arm_away == setMode("away")

\* The mode table consulted before the triggered flag, which then only
\* overrides an armed mode.
hive_async_update_mode_first ==
    /\ device' = hive
    /\ attr_available' = device'.online
    /\ IF attr_available'
       THEN IF device'.triggered /\ device'.mode # "home"
            THEN attr_state' = "triggered"
            ELSE attr_state' = HIVETOHA(device'.mode)
       ELSE attr_state' = attr_state
    /\ UNCHANGED hive
    /\ UNCHANGED shadeVars
    /\ UNCHANGED setupVars

\* The state interpreted without the availability gate.
hive_async_update_no_gate ==
    /\ device' = hive
    /\ attr_available' = device'.online
    /\ IF device'.triggered
       THEN attr_state' = "triggered"
       ELSE attr_state' = HIVETOHA(device'.mode)
    /\ UNCHANGED hive
    /\ UNCHANGED shadeVars
    /\ UNCHANGED setupVars

\* HiveAlarmControlPanelEntity.async_update, on the report getAlarm returns.
hive_async_update ==
    /\ device' = hive
    /\ attr_available' = device'.online
    /\ IF attr_available'
       THEN IF device'.triggered
            THEN attr_state' = "triggered"
            ELSE attr_state' = HIVETOHA(device'.mode)
       ELSE attr_state' = attr_state
    /\ UNCHANGED hive
    /\ UNCHANGED shadeVars
    /\ UNCHANGED setupVars

InitAlarm ==
    /\ kind = "plain"
    /\ positions = InitPositions
    /\ ShadeIdle
    /\ hive \in HiveReports
    /\ device = hive
    /\ attr_available = TRUE
    /\ attr_state = "unknown"
    /\ SetupIdle

NextAlarm ==
    \/ HiveChanges
    \/ async_alarm_disarm
    \/ async_alarm_arm_night
    \/ async_alarm_arm_away
    \/ hive_async_update

SpecAlarm == InitAlarm /\ [][NextAlarm]_vars

\* ------------------------------------------------------------ irrigation setup
\* rachio/__init__.py async_setup_entry, cut at its two awaits.  The host
\* calls it for an entry that is not loaded: the first time, and again after
\* a setup that did not succeed.
MaxControllers == 2

\* CONF_MANUAL_RUN_MINS in entry.data / entry.options: 0 when absent.
ManualRunMins == {0, 10}
\* secrets.token_hex()
SessionTokens == {"token_a", "token_b"}
\* The URL of this server: a cloudhook or a local webhook URL.
WebhookUrls == {"cloudhook_url", "local_url"}

\* Lines 46-65: the options are completed from the yaml import, the API
\* object is made and the webhook id and URL are awaited.
rachio_async_setup_entry ==
    /\ rachio.pc = "not_loaded"
    /\ \E token \in SessionTokens :
          rachio' = [rachio EXCEPT
              !.options_manual_run_mins =
                  IF @ = 0 /\ rachio.config_manual_run_mins # 0
                  THEN rachio.config_manual_run_mins ELSE @,
              !.webhook_auth = token,
              !.webhook_url = "",
              !.person = FALSE,
              !.controllers = 0,
              !.error = "none",
              !.result = "none",
              !.pc = "webhook_wait"]
    /\ UNCHANGED platform
    /\ UNCHANGED shadeVars
    /\ UNCHANGED alarmVars

\* The handler of CloudNotConnected returning False instead of raising.
CloudNotConnected_returns_false ==
    /\ rachio.pc = "webhook_wait"
    /\ rachio' = [rachio EXCEPT !.error = "CloudNotConnected",
                                !.result = "false",
                                !.pc = "not_loaded"]
    /\ UNCHANGED platform
    /\ UNCHANGED shadeVars
    /\ UNCHANGED alarmVars

\* Lines 66-68: the registration raised CloudNotConnected.
CloudNotConnected ==
    /\ rachio.pc = "webhook_wait"
    /\ rachio' = [rachio EXCEPT !.error = "CloudNotConnected",
                                !.result = "not_ready",
                                !.pc = "not_loaded"]
    /\ UNCHANGED platform
    /\ UNCHANGED shadeVars
    /\ UNCHANGED alarmVars

\* Lines 69-75: the webhook URL is known; person.async_setup is awaited.  A
\* cloudhook URL is kept in the entry's data and used again.
webhook_id_and_url_returned ==
    /\ rachio.pc = "webhook_wait"
    /\ \E url \in WebhookUrls :
          /\ rachio.cloudhook => url = "cloudhook_url"
          /\ rachio' = [rachio EXCEPT !.webhook_url = url,
                                      !.cloudhook = (url = "cloudhook_url"),
                                      !.pc = "person_wait"]
    /\ UNCHANGED platform
    /\ UNCHANGED shadeVars
    /\ UNCHANGED alarmVars

\* Lines 76-79: person.async_setup raised ConfigEntryAuthFailed.
ConfigEntryAuthFailed ==
    /\ rachio.pc = "person_wait"
    /\ rachio' = [rachio EXCEPT !.error = "ConfigEntryAuthFailed",
                                !.result = "false",
                                !.pc = "not_loaded"]
    /\ UNCHANGED platform
    /\ UNCHANGED shadeVars
    /\ UNCHANGED alarmVars

\* Lines 80-82: person.async_setup raised ConnectTimeout.
ConnectTimeout ==
    /\ rachio.pc = "person_wait"
    /\ rachio' = [rachio EXCEPT !.error = "ConnectTimeout",
                                !.result = "not_ready",
                                !.pc = "not_loaded"]
    /\ UNCHANGED platform
    /\ UNCHANGED shadeVars
    /\ UNCHANGED alarmVars

\* The controller check passed although the account has no controller.
has_controllers_always(controllers) == TRUE

\* Line 85: person.controllers is a non-empty list.
has_controllers(controllers) == controllers > 0

\* Lines 84-101: person.async_setup returned an account of n controllers.
person_async_setup_returned ==
    /\ rachio.pc = "person_wait"
    /\ \E n \in 0..MaxControllers :
          IF has_controllers(n)
          THEN rachio' = [rachio EXCEPT !.person = TRUE, !.controllers = n,
                                        !.data = TRUE, !.webhook = TRUE,
                                        !.platforms = TRUE, !.result = "true",
                                        !.pc = "loaded"]
          ELSE rachio' = [rachio EXCEPT !.person = TRUE, !.controllers = n,
                                        !.result = "false", !.pc = "not_loaded"]
    /\ UNCHANGED platform
    /\ UNCHANGED shadeVars
    /\ UNCHANGED alarmVars

\* Lines 29-34: the platforms are unloaded and, when that succeeded, the
\* runtime data is dropped.  The entry is followed up to its first unload.
async_unload_entry ==
    /\ rachio.pc = "loaded"
    /\ \E unload_ok \in BOOLEAN :
          IF unload_ok
          THEN rachio' = [rachio EXCEPT !.platforms = FALSE, !.data = FALSE,
                                        !.pc = "unloaded"]
          ELSE rachio' = [rachio EXCEPT !.pc = "unload_failed"]
    /\ UNCHANGED platform
    /\ UNCHANGED shadeVars
    /\ UNCHANGED alarmVars

\* Lines 37-40: the entry is removed; its cloudhook, if it has one, is deleted.
async_remove_entry ==
    /\ rachio.pc \in {"not_loaded", "unloaded"}
    /\ rachio' = [rachio EXCEPT !.cloudhook = FALSE, !.pc = "removed"]
    /\ UNCHANGED platform
    /\ UNCHANGED shadeVars
    /\ UNCHANGED alarmVars

InitRachio ==
    /\ kind = "plain"
    /\ positions = InitPositions
    /\ ShadeIdle
    /\ AlarmIdle
    /\ platform = PlatformIdle
    /\ \E c \in ManualRunMins, o \in ManualRunMins :
          rachio = [RachioIdle EXCEPT !.config_manual_run_mins = c,
                                      !.options_manual_run_mins = o]

NextRachio ==
    \/ rachio_async_setup_entry
    \/ CloudNotConnected
    \/ webhook_id_and_url_returned
    \/ ConfigEntryAuthFailed
    \/ ConnectTimeout
    \/ person_async_setup_returned
    \/ async_unload_entry
    \/ async_remove_entry

SpecRachio == InitRachio /\ [][NextRachio]_vars

\* ------------------------------------------------------------ shade platform setup
\* cover.py async_setup_entry: one pass over the hub's shades, cut at the
\* await of each shade's refresh.
MaxShades == 2

\* A shade of the hub: its vendor class, its can_tilt capability and whether
\* its raw data holds position data.  ShadeTdbu and Silhouette are listed by
\* the vendor library as can_tilt.
ShadeClasses == {"ShadeTdbu", "Silhouette", "BaseShade"}
RawShades ==
    {sh \in [cls : ShadeClasses, can_tilt : BOOLEAN, position_data : BOOLEAN] :
        sh.cls \in {"ShadeTdbu", "Silhouette"} => sh.can_tilt}

ShadeLists ==
    UNION {[1..n -> RawShades] : n \in 0..MaxShades}

\* The capability consulted before the class.
create_powerview_shade_entity_tilt_first(shade) ==
    IF shade.can_tilt THEN <<"tilt">>
    ELSE IF shade.cls = "ShadeTdbu" THEN <<"tdbu_top", "tdbu_bottom">>
    ELSE IF shade.cls = "Silhouette" THEN <<"silhouette">>
    ELSE <<"plain">>

\* The classes of the entities made for a shade, in order.
create_powerview_shade_entity(shade) ==
    IF shade.cls = "ShadeTdbu" THEN <<"tdbu_top", "tdbu_bottom">>
    ELSE IF shade.cls = "Silhouette" THEN <<"silhouette">>
    ELSE IF shade.can_tilt THEN <<"tilt">>
    ELSE <<"plain">>

\* Lines 89-101: the setup starts; with no shade it ends at once.
platform_async_setup_entry ==
    /\ platform.pc = "start"
    /\ IF Len(platform.shades) = 0
       THEN platform' = [platform EXCEPT !.added = TRUE, !.pc = "done"]
       ELSE platform' = [platform EXCEPT !.i = 1, !.pc = "refresh_wait"]
    /\ UNCHANGED rachio
    /\ UNCHANGED shadeVars
    /\ UNCHANGED alarmVars

\* Lines 103-117 and back to line 101: the shade is skipped or its entities
\* are made; then the next shade's refresh is awaited, or the entities are
\* added after the last shade.
after_refresh(shades) ==
    LET i == platform.i
        made == create_powerview_shade_entity(shades[i])
        entities ==
            IF shades[i].position_data
            THEN platform.entities
                 \o [k \in 1..Len(made) |-> [shade |-> i, kind |-> made[k]]]
            ELSE platform.entities
    IN
    IF i < Len(shades)
    THEN [platform EXCEPT !.shades = shades, !.entities = entities,
                          !.i = i + 1]
    ELSE [platform EXCEPT !.shades = shades, !.entities = entities,
                          !.added = TRUE, !.pc = "done"]

\* shade.refresh() returned: the raw data is what the hub answered.
shade_refresh_returns ==
    /\ platform.pc = "refresh_wait"
    /\ \E position_data \in BOOLEAN :
          platform' = after_refresh(
              [platform.shades EXCEPT ![platform.i].position_data = position_data])
    /\ UNCHANGED rachio
    /\ UNCHANGED shadeVars
    /\ UNCHANGED alarmVars

\* The one-second timeout ran out: asyncio.TimeoutError is suppressed and the
\* raw data is as it was.
shade_refresh_times_out ==
    /\ platform.pc = "refresh_wait"
    /\ platform' = after_refresh(platform.shades)
    /\ UNCHANGED rachio
    /\ UNCHANGED shadeVars
    /\ UNCHANGED alarmVars

\* shade.refresh() raised an error of the vendor library: only the timeout is
\* suppressed, so the error leaves async_setup_entry.
shade_refresh_raises ==
    /\ platform.pc = "refresh_wait"
    /\ platform' = [platform EXCEPT !.pc = "failed"]
    /\ UNCHANGED rachio
    /\ UNCHANGED shadeVars
    /\ UNCHANGED alarmVars

InitSetup ==
    /\ kind = "plain"
    /\ positions = InitPositions
    /\ ShadeIdle
    /\ AlarmIdle
    /\ rachio = RachioIdle
    /\ \E shades \in ShadeLists : platform = [PlatformIdle EXCEPT !.shades = shades]

NextSetup ==
    \/ platform_async_setup_entry
    \/ shade_refresh_returns
    \/ shade_refresh_times_out
    \/ shade_refresh_raises

SpecSetup == InitSetup /\ [][NextSetup]_vars

\* ------------------------------------------------------------ properties checked
PendingIn(tm, cb) == {i \in Slots : tm[i].cb = cb}
NoPollPending(tm) == \A i \in Slots : tm[i] = NoTimer

\* A handle the entity holds always names a pending timer of its own kind, so
\* a slot that is used again is never reached through a stale handle.
HandlesNamePendingTimers ==
    /\ scheduled_transition_update # 0 =>
           timers[scheduled_transition_update].cb = "transition"
    /\ forced_resync # 0 => timers[forced_resync].cb = "resync"

\* The rail the entity reports and moves: the secondary one for the top
\* entity of a dual-rail shade, the primary one otherwise.
OwnRail(pos) == IF kind = "tdbu_top" THEN pos.secondary ELSE pos.primary
OtherRail(pos) == IF kind = "tdbu_top" THEN pos.primary ELSE pos.secondary

\* A movement operation has just scheduled its transition poll.
MoveIssued == call.pc = "idle" /\ call'.pc = "move_wait"

\* C1: whenever a movement operation schedules its transition poll, right
\* after the scheduling exactly one transition poll and no resync poll is
\* pending in the host's scheduler.
C1_OnePollAfterScheduling ==
    [][MoveIssued =>
          /\ Cardinality(PendingIn(timers', "transition")) = 1
          /\ PendingIn(timers', "resync") = {}]_vars

\* C2: once async_will_remove_from_hass has run, no transition poll and no
\* resync poll of the entity is pending (so none can fire).
C2_NoPollAfterRemoval == removed => NoPollPending(timers)

\* C3: the two phases follow each other: a transition poll that fires
\* refreshes the shade from the vendor; when that refresh has returned exactly
\* one resync poll, of 60 seconds, is pending and no transition poll; and when
\* the resync poll's refresh has returned and the entity holds no newer poll,
\* no poll is pending.
C3_TransitionThenResyncThenIdle ==
    [][/\ (\E i \in Slots : _async_complete_schedule_update(i)) =>
              /\ tasks'.complete = tasks.complete + 1
              /\ PendingIn(timers', "resync") = PendingIn(timers, "resync")
       /\ CompleteReturns =>
              /\ Cardinality(PendingIn(timers', "resync")) = 1
              /\ \A i \in PendingIn(timers', "resync") :
                     timers'[i].delay = RESYNC_DELAY
              /\ PendingIn(timers', "transition") = {}
       /\ (ResyncReturns /\ scheduled_transition_update = 0 /\ forced_resync = 0) =>
              NoPollPending(timers')]_vars

\* C4: while a transition poll or a resync poll is outstanding, a coordinator
\* broadcast and a host poll contact no vendor and change neither the cached
\* positions, the opening/closing flags nor the written state; while none is
\* outstanding the host poll refreshes from the vendor and the broadcast is
\* applied and written.
C4_UpdatesSkippedWhilePollOutstanding ==
    [][/\ (~NoPollPending(timers) /\ (async_update \/ _async_update_shade_from_group)) =>
              UNCHANGED <<positions, is_opening, is_closing, written, call>>
       /\ (NoPollPending(timers) /\ async_update) => call'.pc = "refresh_wait"
       /\ (NoPollPending(timers) /\ _async_update_shade_from_group) =>
              /\ positions' \in {update_shade_positions(positions, r) : r \in Reports}
              /\ written' = HaState(positions', is_opening, is_closing)]_vars

\* The host asked for the position it was shown: the vendor position p of the
\* cache went to a percentage and that percentage back to a vendor position.
RoundTripped == call.op = "set" /\ written # Unwritten
RoundTripError == Abs(OwnRail(call.request) - OwnRail(positions))

\* C5 as stated: a vendor position converted to a percentage and back is
\* within 1 of where it started.
C5_RoundTripWithinOne == RoundTripped => RoundTripError <= 1

\* C5 as amended: a vendor position converted to a percentage and back is
\* within 328 (half a percent of the range, rounded up) of where it started.
C5_RoundTripWithinHalfPercent ==
    RoundTripped => 200 * RoundTripError <= (MAX_POSITION - MIN_POSITION) + 199

C5_Witness ==
    /\ RoundTripped
    /\ kind = "plain"
    /\ positions.primary = 983
    /\ call.request.primary = 655

\* C6: for either entity of a dual-rail shade, the percentage a set-position
\* request commands for its rail plus the percentage the other rail is at is
\* at most 100.
C6_RailsDoNotCross ==
    (kind \in TDBU /\ call.op = "set") =>
        hd_position_to_hass(OwnRail(call.request), MAX_POSITION)
        + hd_position_to_hass(OtherRail(positions), MAX_POSITION) <= 100

C6_Witness ==
    /\ kind = "tdbu_bottom"
    /\ call.op = "set"
    /\ hd_position_to_hass(positions.secondary, MAX_POSITION) = 60
    /\ call.request.primary = hass_position_to_hd(40, MAX_POSITION)
    /\ call.request.secondary = positions.secondary

\* C7 as stated: after every polling update whose report has the triggered
\* flag set, the alarm's state is triggered.
C7_TriggeredReportGivesTriggered ==
    [][(hive_async_update /\ device'.triggered) => attr_state' = "triggered"]_vars

\* C7 as amended: after every polling update whose report is of an online
\* device and has the triggered flag set, the alarm's state is triggered,
\* whatever mode is reported.
C7_OnlineTriggeredReportGivesTriggered ==
    [][(hive_async_update /\ device'.triggered /\ device'.online) =>
          attr_state' = "triggered"]_vars

C7_Witness ==
    /\ device = [mode |-> "home", triggered |-> TRUE, online |-> TRUE]
    /\ attr_state = "triggered"
    /\ attr_available

\* C8: a polling update that receives an offline report makes the entity
\* unavailable and leaves its alarm state as it was; the state is only
\* interpreted from a report of an online device.
C8_OfflineReportKeepsState ==
    [][hive_async_update =>
          /\ attr_available' = hive.online
          /\ ~hive.online => attr_state' = attr_state
          /\ attr_state' # attr_state => hive.online]_vars

C8_Witness ==
    /\ device = [mode |-> "away", triggered |-> TRUE, online |-> FALSE]
    /\ ~attr_available
    /\ attr_state = "disarmed"

\* C9: a shade is reported closed exactly when the vendor position of its rail
\* is at most 491, and its reported position is that position as a percentage
\* of 65535 rounded to the nearest integer; 65535 is reported as 100, 491 as 1
\* and closed, 492 as not closed.
C9_ClosedAndReportedPosition ==
    written # Unwritten =>
        LET p == OwnRail(positions) IN
        /\ written.closed <=> p <= 491
        /\ written.pos \in 0..100
        /\ 2 * Abs(100 * p - written.pos * MAX_POSITION) <= MAX_POSITION
        /\ p = 65535 => written.pos = 100
        /\ p = 491 => (written.pos = 1 /\ written.closed)
        /\ p = 492 => ~written.closed

C9_Witness ==
    /\ kind = "tdbu_top"
    /\ positions.secondary = 491
    /\ written.pos = 1
    /\ written.closed

\* C10: on a plain shade at c percent, open arms the transition poll at
\* 1 + floor(40 * (100 - c) / 100) seconds and close at
\* 1 + floor(40 * c / 100) seconds; open at 20 percent arms it at 33 seconds.
C10_PlainOpenCloseDelay ==
    (kind = "plain" /\ call.op \in {"open", "close"}) =>
        LET c == current_cover_position(positions)
            delay == timers[scheduled_transition_update].delay
        IN
        /\ scheduled_transition_update # 0
        /\ call.op = "open" => delay = 1 + ((40 * (100 - c)) \div 100)
        /\ call.op = "close" => delay = 1 + ((40 * c) \div 100)
        /\ (call.op = "open" /\ c = 20) => delay = 33

C10_Witness ==
    /\ kind = "plain"
    /\ call.op = "open"
    /\ current_cover_position(positions) = 20
    /\ timers[scheduled_transition_update].delay = 33

\* C11: an irrigation setup in which the webhook registration raised
\* cloud-not-connected or the account fetch raised a connection timeout ends
\* with the retryable not-ready signal, never with a plain failure result, and
\* with no runtime data stored and no webhook handler registered.
C11_NotReadyOnCloudOrTimeout ==
    (rachio.error \in {"CloudNotConnected", "ConnectTimeout"}) =>
        /\ rachio.pc \in {"not_loaded", "removed"}
        /\ rachio.result = "not_ready"
        /\ ~rachio.data
        /\ ~rachio.webhook

C11_Witness ==
    /\ rachio.error = "CloudNotConnected"
    /\ rachio.result = "not_ready"
    /\ rachio.webhook_auth = "token_b"
    /\ ~rachio.data

\* C12: an irrigation setup in which the account fetch reported an
\* authentication failure, or returned an account without controllers, ends
\* with the result False (not with the retryable signal) and with no runtime
\* data stored, no webhook handler registered and no platform set up; a setup
\* ends with True only after the account fetch returned without an error an
\* account of at least one controller.
C12_TerminalFailureOrSuccess ==
    /\ (rachio.error = "ConfigEntryAuthFailed"
        \/ (rachio.person /\ rachio.controllers = 0)) =>
           /\ rachio.result = "false"
           /\ ~rachio.data
           /\ ~rachio.webhook
           /\ ~rachio.platforms
    /\ rachio.result = "true" =>
           /\ rachio.person
           /\ rachio.error = "none"
           /\ rachio.controllers >= 1

C12_Witness ==
    /\ rachio.person
    /\ rachio.controllers = 0
    /\ rachio.result = "false"
    /\ rachio.webhook_url = "cloudhook_url"
    /\ ~rachio.platforms

\* The shades the setup has made entities for, and the entities of one shade.
ShadesWithEntities == {platform.entities[k].shade : k \in 1..Len(platform.entities)}
ShadesWithPositionData ==
    {i \in 1..Len(platform.shades) : platform.shades[i].position_data}
EntityKindsOf(i) ==
    LET of_i == SelectSeq(platform.entities, LAMBDA e : e.shade = i)
    IN [k \in 1..Len(of_i) |-> of_i[k].kind]

\* C13: the shade platform's setup always completes; no outcome of a shade's
\* refresh aborts it, and when it has completed the entities added are those
\* of exactly the shades whose data holds position data.
C13_SetupCompletesForShadesWithData ==
    /\ platform.pc # "failed"
    /\ platform.pc = "done" =>
           /\ platform.added
           /\ ShadesWithEntities = ShadesWithPositionData

\* C17: a dual-rail shade gets exactly a top and a bottom entity, in that
\* order, and no tilt entity although it can tilt; otherwise a silhouette
\* shade gets one silhouette entity; otherwise a shade that can tilt gets one
\* tilt entity; otherwise the shade gets one plain entity.  Every shade that
\* entities are made for gets at least one, and only a dual-rail shade more.
C17_SubtypeByPriority ==
    \A i \in ShadesWithEntities \cup
             (IF platform.pc = "done" THEN ShadesWithPositionData ELSE {}) :
        LET shade == platform.shades[i]
            kinds == EntityKindsOf(i)
        IN
        /\ Len(kinds) >= 1
        /\ Len(kinds) > 1 => shade.cls = "ShadeTdbu"
        /\ shade.cls = "ShadeTdbu" => kinds = <<"tdbu_top", "tdbu_bottom">>
        /\ shade.cls = "Silhouette" => kinds = <<"silhouette">>
        /\ (shade.cls = "BaseShade" /\ shade.can_tilt) => kinds = <<"tilt">>
        /\ (shade.cls = "BaseShade" /\ ~shade.can_tilt) => kinds = <<"plain">>

C17_Witness ==
    /\ platform.pc = "done"
    /\ Len(platform.shades) = 2
    /\ platform.shades[1].cls = "ShadeTdbu"
    /\ platform.shades[1].can_tilt
    /\ platform.shades[2].cls = "Silhouette"
    /\ [k \in 1..Len(platform.entities) |-> platform.entities[k].kind]
           = <<"tdbu_top", "tdbu_bottom", "silhouette">>

\* C14: disarm, arm-night and arm-away set the vendor's mode to "home",
\* "asleep" and "away"; a polling update of an online, untriggered device in
\* one of these modes gives the state disarmed, armed-night and armed-away
\* respectively; the three modes have three different states.
C14_CommandsAndTableAreInverse ==
    [][/\ async_alarm_disarm => hive'.mode = "home"
       /\ async_alarm_arm_night => hive'.mode = "asleep"
       /\ async_alarm_arm_away => hive'.mode = "away"
       /\ (hive_async_update /\ hive.online /\ ~hive.triggered) =>
              /\ hive.mode = "home" => attr_state' = "disarmed"
              /\ hive.mode = "asleep" => attr_state' = "armed_night"
              /\ hive.mode = "away" => attr_state' = "armed_away"
       /\ Cardinality({HIVETOHA(mode) : mode \in HiveModes}) = 3]_vars

C14_Witness ==
    /\ hive = [mode |-> "asleep", triggered |-> FALSE, online |-> TRUE]
    /\ device = hive
    /\ attr_state = "armed_night"

\* C15: a set-position move of either entity of a dual-rail shade carries both
\* rails and no vane, and carries for the other rail the vendor position the
\* cache holds for it: the secondary one in a move of the bottom entity, the
\* primary one in a move of the top entity.
C15_OtherRailSentUnchanged ==
    (kind \in TDBU /\ call.op = "set") =>
        /\ call.request.primary # Absent
        /\ call.request.secondary # Absent
        /\ call.request.vane = Absent
        /\ kind = "tdbu_bottom" => call.request.secondary = positions.secondary
        /\ kind = "tdbu_top" => call.request.primary = positions.primary

C15_Witness ==
    /\ kind = "tdbu_top"
    /\ call.op = "set"
    /\ hd_position_to_hass(positions.primary, MAX_POSITION) = 40
    /\ call.request.primary = positions.primary
    /\ call.request.secondary = hass_position_to_hd(60, MAX_POSITION)

\* C16: when the vendor's move command of an open, close, set-position or tilt
\* operation raises, the operation ends there: the cached positions, the
\* opening and closing flags and the written state stay as they are.
C16_FailedMoveChangesNothing ==
    [][MoveFails =>
          /\ call.op \in {"open", "close", "set"} \cup TiltOps
          /\ call' = NoCall
          /\ UNCHANGED <<positions, is_opening, is_closing, written>>]_vars

\* Nothing but failed moves has happened: a transition poll is armed, which
\* only a movement operation does, and no state has been written, which every
\* move that returns does.
C16_Witness ==
    /\ kind = "tilt"
    /\ call = NoCall
    /\ scheduled_transition_update # 0
    /\ tasks = NoTasks
    /\ written = Unwritten
    /\ ~is_opening
    /\ ~is_closing

\* C18: in every reachable state at most one delayed poll of the entity is
\* outstanding: no poll (idle), one transition poll, or one resync poll.
C18_AtMostOnePollOutstanding ==
    Cardinality({i \in Slots : timers[i] # NoTimer}) <= 1

\* C19: every pending poll is the one a handle of the entity names, so that it
\* can still be cancelled: no handle was overwritten while its timer was
\* pending.
C19_EveryPendingPollHasItsHandle ==
    \A i \in Slots :
        /\ timers[i].cb = "transition" => scheduled_transition_update = i
        /\ timers[i].cb = "resync" => forced_resync = i

\* C20: every firing of a transition poll and every firing of a resync poll
\* starts a refresh of the shade from the vendor.
C20_EveryFiringRefreshes ==
    [][FireTimer => InFlight' = InFlight + 1]_vars

\* C21: for every movement operation of every shade subtype and every cached
\* combination of positions, the step count passed to the scheduler is within
\* 0..100 and the transition poll is armed at 1 to 41 seconds.
C21_StepsAreAMagnitude ==
    call.pc = "move_wait" =>
        /\ call.steps \in 0..100
        /\ scheduled_transition_update # 0
        /\ timers[scheduled_transition_update].delay \in 1..41

\* C22: for either entity of a dual-rail shade, the vendor position a
\* set-position request commands for its rail plus the vendor position the
\* other rail is at is at most 65535.
C22_RailsDoNotOverlapInVendorUnits ==
    (kind \in TDBU /\ call.op = "set") =>
        OwnRail(call.request) + OtherRail(positions) <= MAX_POSITION

\* The awaited shade.move() has returned to its operation; a refresh of the
\* shade has returned to the poll, the stop or the timer callback awaiting it.
MoveReturned == call.pc = "move_wait" /\ call'.pc = "idle" /\ ~MoveFails
RefreshReturned ==
    \/ call.pc = "refresh_wait" /\ call'.pc = "idle" /\ ~CallFails
    \/ tasks'.complete + tasks'.resync < InFlight /\ ~TaskFails

\* C23: the entity is never flagged opening and closing together.  A
\* set-position that returns flags opening exactly when the percentage it
\* commanded is above the position read when it was issued, and closing exactly
\* when it is below; an open that returns flags opening only, a close closing
\* only; and every refresh of the shade's data from the vendor clears both.
C23_OpeningClosingFlags ==
    [][/\ ~(is_opening' /\ is_closing')
       /\ (call.pc = "idle" /\ call'.op = "set") =>
              /\ call'.opening <=> call'.target > current_cover_position(positions)
              /\ call'.closing <=> call'.target < current_cover_position(positions)
       /\ (MoveReturned /\ call.op = "set") =>
              /\ is_opening' = call.opening
              /\ is_closing' = call.closing
       /\ (MoveReturned /\ call.op = "open") => (is_opening' /\ ~is_closing')
       /\ (MoveReturned /\ call.op = "close") => (is_closing' /\ ~is_opening')
       /\ RefreshReturned => (~is_opening' /\ ~is_closing')]_vars

\* A set-position to 50 percent has returned on a plain shade that was closed.
C23_Witness ==
    /\ kind = "plain"
    /\ call = NoCall
    /\ positions.primary = hass_position_to_hd(50, MAX_POSITION)
    /\ is_opening
    /\ ~is_closing
    /\ written.opening

\* C24: the vendor position commanded for a percentage h lies within the
\* vendor range of its scale (65535 for a rail and a vane, 32767 for the vane
\* of a silhouette shade) and is reported back as exactly h, for every h in
\* 0..100.
C24_PercentageSurvivesRoundTrip ==
    /\ call.op = "set" =>
           /\ OwnRail(call.request) \in MIN_POSITION..MAX_POSITION
           /\ hd_position_to_hass(OwnRail(call.request), MAX_POSITION) = call.target
    /\ call.op = "set_tilt" =>
           /\ call.request.vane \in MIN_POSITION.._max_tilt
           /\ hd_position_to_hass(call.request.vane, _max_tilt) = call.target

C24_Witness ==
    /\ kind = "silhouette"
    /\ call.op = "set_tilt"
    /\ call.target = 33
    /\ call.request.vane = 10813
    /\ hd_position_to_hass(10813, SILHOUETTE_MAX_TILT) = 33

\* C26: a set-tilt-position to t on a tilt-capable shade passes to the
\* scheduler the step count |current tilt percentage - t|, whatever the
\* position of the primary rail.
C26_TiltStepsAreTheVaneChange ==
    call.op = "set_tilt" =>
        /\ call.steps =
               Abs(hd_position_to_hass(positions.vane, _max_tilt) - call.target)
        /\ timers[scheduled_transition_update].delay
               = 1 + ((40 * call.steps) \div 100)

C26_Witness ==
    /\ kind = "tilt"
    /\ call.op = "set_tilt"
    /\ positions.primary = MAX_POSITION
    /\ hd_position_to_hass(positions.vane, MAX_POSITION) = 20
    /\ call.target = 75
    /\ call.steps = 55

\* C25: a stop (and a stop-tilt alike) cancels the pending polls before the
\* vendor's stop command is sent, applies the stop response and refreshes the
\* shade from the vendor; when that refresh has returned, with no timer
\* callback of the entity under way and no newer poll held, no transition or
\* resync poll is pending and both flags are cleared.
C25_StopLeavesNoPollAndNoFlag ==
    [][/\ (call.pc = "idle" /\ call'.pc = "stop_wait") =>
              /\ scheduled_transition_update' = 0
              /\ forced_resync' = 0
              /\ scheduled_transition_update # 0 =>
                     timers'[scheduled_transition_update] = NoTimer
              /\ forced_resync # 0 => timers'[forced_resync] = NoTimer
       /\ (call.pc = "stop_wait" /\ call'.pc # "stop_wait" /\ ~CallFails
           /\ ~_update_in_progress(scheduled_transition_update, forced_resync)) =>
              /\ call'.pc = "refresh_wait"
              /\ positions' \in {update_shade_positions(positions, response) :
                                    response \in Reports \cup {NoPositions}}
       /\ (call.op = "stop" /\ call.pc = "refresh_wait" /\ call'.pc = "idle"
           /\ ~CallFails /\ tasks = NoTasks
           /\ scheduled_transition_update = 0 /\ forced_resync = 0) =>
              /\ NoPollPending(timers')
              /\ ~is_opening'
              /\ ~is_closing']_vars

====
